---- MODULE Spec2Model ----
(***************************************************************************)
(* autofeat/featsel.py, select_features: the iterative feature-selection   *)
(* loop.  The data frame is abstracted to its row count and its column     *)
(* names; the two collaborators (StandardScaler, LassoLarsCV) are          *)
(* abstracted to what the loop reads from them: the score vector w, the    *)
(* coefficient vector coef_ and the validation residual.                   *)
(*                                                                         *)
(* Units.  Residuals are non-negative integers in units of 1e-8 (numpy's   *)
(* default atol of np.isclose).  Coefficients are integers in units of     *)
(* 1e-7, so the pruning threshold 1e-6 is 10.                              *)
(***************************************************************************)
EXTENDS Integers, Sequences, FiniteSets, TLC

\* ------------------------------------------------------------- bounds
MaxN == 4          \* rows of df: 1..MaxN
MaxP == 2          \* columns of df: 1..MaxP
MaxIt == 3         \* max_it: 0..MaxIt

\* residual values the regressor / the test target can produce (units 1e-8)
ResVals == {0, 3, 200000, 200002}
\* values of one entry of w (absolute correlation); equal entries are ties
Scores == {0, 1}
\* values of one entry of reg.coef_ (units 1e-7)
CoefVals == {-11, 10}

\* ------------------------------------------------------------- constants
PruneTol == 10         \* 1e-6 in units of 1e-7
RtolInv == 100000      \* 1 / rtol of np.isclose (rtol = 1e-5)
Atol == 1              \* atol of np.isclose (1e-8) in units of 1e-8
MinTrain == 3          \* max(3, ...)
BestFactor == 10       \* smallest_residual = 10. * residual

\* ------------------------------------------------------------- helpers
Max(a, b) == IF a >= b THEN a ELSE b
Min(a, b) == IF a <= b THEN a ELSE b
Abs(a) == IF a < 0 THEN -a ELSE a
Range(s) == {s[i] : i \in 1..Len(s)}
NoDup(s) == \A i, j \in 1..Len(s) : i # j => s[i] # s[j]

\* Python slice seq[i:] (i may be negative, and may be out of range)
PySliceFrom(s, i) ==
    LET L == Len(s)
        start == IF i < 0 THEN Max(0, L + i) ELSE Min(i, L)
    IN  SubSeq(s, start + 1, L)

\* rows (0-based) of a length-len sequence selected by [:stop] and by [start:]
RowsTo(len, stop) == {r \in 0..(len - 1) : r < stop}
RowsFrom(len, start) == {r \in 0..(len - 1) : r >= start}

\* int(0.8 * len(df)) and max(3, int(0.8 * len(df)))
TestStart(n) == (8 * n) \div 10
TrainStop(n) == Max(MinTrain, TestStart(n))

\* the check of line 46 with the test-block comparison left out
DimensionMismatchTrainOnly(dtr, dte, ttr, tte) == ~ (Cardinality(dtr) = Cardinality(ttr))

\* the check of line 46
DimensionMismatch(dtr, dte, ttr, tte) ==
    ~ (Cardinality(dtr) = Cardinality(ttr) /\ Cardinality(dte) = Cardinality(tte))

\* int(0.5 * df_train.shape[0])
Thr(ntrain) == ntrain \div 2

\* np.isclose(a, b): |a - b| <= atol + rtol * |b|, in integers:
\* |a - b| - atol is an integer, so it is <= |b| / RtolInv iff it is <= the floor
IsClose(a, b) == Abs(a - b) - Atol <= Abs(b) \div RtolInv

\* np.sum(np.isclose(residual, last_residuals)): over every slot of the array
CloseCount(r, hist) == Cardinality({i \in 1..Len(hist) : IsClose(r, hist[i])})

\* the loop condition with the budget test off by one (it <= max_it)
LoopCondOffByOne(i, maxit, r, hist) == (i <= maxit) /\ ~ (CloseCount(r, hist) >= 2)

\* the condition of the while loop, line 61
LoopCond(i, maxit, r, hist) == (i < maxit) /\ ~ (CloseCount(r, hist) >= 2)

\* the history written after the counter was incremented
HistIndexAfterIncrement(i) == i + 1

\* last_residuals[it] = residual: the (0-based) slot written at counter value i
HistIndex(i) == i

\* the regressor fitted on the residual target: reg.fit(X, new_target)
FitTargetResidual(orig, newt) == newt

\* reg.fit(X, target_train): the target the regressor is fitted on, given the
\* original training target and the current residual target
FitTarget(orig, newt) == orig

\* it += 1
NextIt(i) == i + 1

\* the candidate set without the exclusion of good_cols
CandidatesAll(columns, good) == columns

\* set(df_train.columns) minus good_cols
Candidates(columns, good) == columns \ Range(good)

\* list(cols): the iteration order of a set is unspecified
ListOrders(S) ==
    {s \in [1..Cardinality(S) -> S] : \A i, j \in 1..Cardinality(S) : i # j => s[i] # s[j]}

\* np.argsort(w): ascending, equal entries in index order (arrays of at most 16
\* entries are sorted by insertion); positions are 1-based here
ArgSort(w) ==
    LET n == Len(w)
        rank(i) == 1 + Cardinality({j \in 1..n : w[j] < w[i] \/ (w[j] = w[i] /\ j < i)})
    IN  [r \in 1..n |-> CHOOSE i \in 1..n : rank(i) = r]

\* the slice start without its minus sign: np.argsort(w)[(thr - len(good_cols)):]
SelectedFromFront(good, cols_list, w, t) ==
    LET idx == PySliceFrom(ArgSort(w), t - Len(good))
    IN  [j \in 1..Len(idx) |-> cols_list[idx[j]]]

\* [cols_list[c] for c in np.argsort(w)[-(thr - len(good_cols)):]]
Selected(good, cols_list, w, t) ==
    LET idx == PySliceFrom(ArgSort(w), -(t - Len(good)))
    IN  [j \in 1..Len(idx) |-> cols_list[idx[j]]]

\* good_cols.extend(...)
Extend(good, cols_list, w, t) == good \o Selected(good, cols_list, w, t)

\* dict(zip(good_cols, reg.coef_)): keys in first-insertion order, last value wins
DictKeys(good) == SelectSeq([i \in 1..Len(good) |-> IF \E j \in 1..(i - 1) : good[j] = good[i]
                                                    THEN 0 ELSE good[i]],
                            LAMBDA c : c # 0)
Weight(good, coef, c) ==
    coef[CHOOSE i \in 1..Len(good) : good[i] = c /\ \A j \in (i + 1)..Len(good) : good[j] # c]

\* [c for c in weights if abs(weights[c]) > 1e-6]
Prune(good, coef) ==
    SelectSeq(DictKeys(good), LAMBDA c : Abs(Weight(good, coef, c)) > PruneTol)

\* line 87 as an assignment of the list itself: best_cols = good_cols
SnapshotAlias(good) == [cols |-> good, shared |-> TRUE]

\* best_cols = [c for c in good_cols]: a new list with the same entries
Snapshot(good) == [cols |-> good, shared |-> FALSE]

\* the comparison of line 85 dropped: every residual replaces the best one
ImprovesAlways(r, smallest) == TRUE

\* the comparison of line 85 made non-strict
ImprovesOrTies(r, smallest) == r <= smallest

\* residual < smallest_residual
Improves(r, smallest) == r < smallest

\* ------------------------------------------------------------- state
VARIABLES
    pc,                \* position: "split", "loop", "score", "fit", "done", "raised"
    df_len,            \* n = len(df)
    target_len,        \* len(target)
    ncols,             \* p: the columns are 1..p
    max_it,
    df_train, df_test,           \* row numbers (0-based) of the two blocks
    target_train, target_test,   \* entries (0-based) of target in the two blocks
    thr,
    good_cols, best_cols,
    best_shared,       \* whether best_cols and good_cols are one and the same list
    new_target,        \* 0: target_train; j > 0: target_train - prediction of fit j
    residual, residual0, last_residuals, smallest_residual,
    it,
    pre_cols,          \* good_cols before the extension of line 73 (while pc = "fit")
    nscore,            \* how many times the candidates were scored
    nfit,              \* how many times the regressor was fitted
    fit_y,             \* the target of the latest fit (-1 before the first), named as
                       \* new_target is: 0 is target_train
    min_fit            \* the earliest fit with the least validation residual so far:
                       \* its residual (-1 before the first fit) and its kept columns

\* what the steps did, for the properties below
VARIABLES
    written,           \* the (0-based) history slots written, in order
    starts,            \* the residual at the start of each executed iteration
    offered            \* the candidates of the latest scoring (while pc = "fit")

trace == <<written, starts, offered>>

\* two calls on the same inputs, one after the other (specification SpecDet)
VARIABLES
    runs,              \* runs[i]: the loop state of call i (a record of the locals)
    turn,              \* the call that is running: 1, then 2
    hash_order,        \* hash_order[i]: list(cols) in the process of call i, as a
                       \* function of the candidate set (it follows the hash seed)
    fit_memo,          \* the regressor as a function: set of the columns of X ->
                       \* coefficient of each column, validation residual
    score_memo         \* the scores as a function: (columns of the latest fit, column) -> w

det == <<runs, turn, hash_order, fit_memo, score_memo>>

vars == <<det, pc, df_len, target_len, ncols, max_it, df_train, df_test, target_train,
          target_test, thr, good_cols, best_cols, best_shared, new_target, residual,
          residual0, last_residuals, smallest_residual, it, pre_cols, nscore, nfit, fit_y,
          min_fit, trace>>

inputs == <<df_len, target_len, ncols, max_it>>
split == <<df_train, df_test, target_train, target_test, thr>>
monitor == <<nscore, nfit, fit_y, min_fit>>

Columns == 1..ncols

Init ==
    /\ pc = "split"
    /\ df_len \in 1..MaxN
    /\ target_len \in 0..(MaxN + 1)
    /\ ncols \in 1..MaxP
    /\ max_it \in 0..MaxIt
    /\ df_train = {} /\ df_test = {} /\ target_train = {} /\ target_test = {}
    /\ thr = 0
    /\ good_cols = <<>> /\ best_cols = <<>> /\ best_shared = FALSE
    /\ new_target = 0
    /\ residual = 0 /\ residual0 = 0 /\ smallest_residual = 0
    /\ last_residuals = <<>>
    /\ it = 0
    /\ pre_cols = <<>>
    /\ nscore = 0 /\ nfit = 0 /\ fit_y = -1
    /\ min_fit = [res |-> -1, kept |-> <<>>]
    /\ written = <<>> /\ starts = <<>> /\ offered = {}
    /\ runs = <<>> /\ turn = 0 /\ hash_order = <<>>
    /\ fit_memo = <<>> /\ score_memo = <<>>

\* lines 42-59: the split, the dimension check and the loop's initial state
Split ==
    /\ pc = "split"
    /\ df_train' = RowsTo(df_len, TrainStop(df_len))
    /\ df_test' = RowsFrom(df_len, TestStart(df_len))
    /\ target_train' = RowsTo(target_len, TrainStop(df_len))
    /\ target_test' = RowsFrom(target_len, TestStart(df_len))
    /\ IF DimensionMismatch(df_train', df_test', target_train', target_test')
       THEN /\ pc' = "raised"
            /\ UNCHANGED <<thr, residual, residual0, last_residuals, smallest_residual>>
       ELSE /\ pc' = "loop"
            /\ thr' = Thr(Cardinality(df_train'))
            /\ \E r \in ResVals :       \* np.mean(np.abs(target_test))
                 /\ residual' = r
                 /\ residual0' = r
                 /\ smallest_residual' = BestFactor * r
            /\ last_residuals' = [i \in 1..max_it |-> 0]
    /\ UNCHANGED <<det, inputs, good_cols, best_cols, best_shared, new_target, it, pre_cols,
                   monitor, trace>>

\* lines 61-65: the loop condition holds; record the residual, count the iteration
Enter ==
    /\ pc = "loop"
    /\ LoopCond(it, max_it, residual, last_residuals)
    /\ last_residuals' = [last_residuals EXCEPT ![HistIndex(it) + 1] = residual]
    /\ written' = Append(written, HistIndex(it))
    /\ starts' = Append(starts, residual)
    /\ it' = NextIt(it)
    /\ pc' = "score"
    /\ UNCHANGED <<det, inputs, split, good_cols, best_cols, best_shared, new_target,
                   residual, residual0, smallest_residual, pre_cols, monitor, offered>>

\* lines 61, 88-90: the loop condition fails; return best_cols
Exit ==
    /\ pc = "loop"
    /\ ~ LoopCond(it, max_it, residual, last_residuals)
    /\ pc' = "done"
    /\ UNCHANGED <<det, inputs, split, good_cols, best_cols, best_shared, new_target,
                   residual, residual0, last_residuals, smallest_residual, it, pre_cols,
                   monitor, trace>>

\* lines 66-73: score the candidates and extend good_cols; the list is extended
\* in place, so a name bound to the same list sees the new entries
Score ==
    /\ pc = "score"
    /\ \E cols_list \in ListOrders(Candidates(Columns, good_cols)) :
         \E w \in [1..Len(cols_list) -> Scores] :
            /\ good_cols' = Extend(good_cols, cols_list, w, thr)
            /\ best_cols' = IF best_shared THEN good_cols' ELSE best_cols
            /\ offered' = Range(cols_list)
    /\ pre_cols' = good_cols
    /\ nscore' = nscore + 1
    /\ pc' = "fit"
    /\ UNCHANGED <<det, inputs, split, best_shared, new_target, residual, residual0,
                   last_residuals, smallest_residual, it, nfit, fit_y, min_fit, written,
                   starts>>

\* lines 75-87: fit, new residual target, validation residual, prune, best so far;
\* line 84 binds good_cols to a new list, which best_cols shares only if line 87
\* makes it so
FitPrune ==
    /\ pc = "fit"
    /\ \E coef \in [1..Len(good_cols) -> CoefVals], r \in ResVals :
         LET kept == Prune(good_cols, coef) IN
         /\ residual' = r
         /\ good_cols' = kept
         /\ min_fit' = IF min_fit.res = -1 \/ r < min_fit.res
                       THEN [res |-> r, kept |-> kept] ELSE min_fit
         /\ IF Improves(r, smallest_residual)
            THEN /\ smallest_residual' = r
                 /\ best_cols' = Snapshot(kept).cols
                 /\ best_shared' = Snapshot(kept).shared
            ELSE /\ UNCHANGED <<smallest_residual, best_cols>>
                 /\ best_shared' = FALSE
    /\ new_target' = it
    /\ nfit' = nfit + 1
    /\ fit_y' = FitTarget(0, new_target)
    /\ nscore' = nscore
    /\ pre_cols' = <<>>
    /\ offered' = {}
    /\ pc' = "loop"
    /\ UNCHANGED <<det, inputs, split, residual0, last_residuals, it, written, starts>>

Next == Split \/ Enter \/ Exit \/ Score \/ FitPrune

Spec == Init /\ [][Next]_vars

\* the loop is sequential code: every step that can run does run
FairSpec == Spec /\ WF_vars(Next)

\* ------------------------------------------------------------- two calls
\* The same dataset, target and parameters are given to two calls.  The
\* regressor and the standardizer are functions of their inputs: a fit on the
\* same set of columns returns the same coefficient for each column and the
\* same residual (whatever the order of the columns in X), and the score of a
\* column depends only on the column and on new_target, which the latest fit
\* determines.  The answers are drawn when first asked for and remembered.
\* Only list(set) may differ between the two processes.

\* list(cols) for the candidate set S in a process whose lists so far are h.
\* difference_update may rebuild the hash table, so the order of the remaining
\* columns need not be the order they had in set(df_train.columns): every order
\* of S is possible, but within one process the same set gives the same list
HashList(h, S) == IF S \in DOMAIN h THEN {h[S]} ELSE ListOrders(S)

\* lines 50-59
InitRun(r0, maxit) ==
    [pc |-> "loop", good_cols |-> <<>>, best_cols |-> <<>>, residual |-> r0,
     last_residuals |-> [i \in 1..maxit |-> 0], smallest_residual |-> BestFactor * r0,
     it |-> 0, fitted |-> {0}, residuals |-> <<>>]

DetInit ==
    /\ pc = "twice"
    /\ df_len \in 1..MaxN
    /\ target_len = df_len
    /\ ncols \in 1..MaxP
    /\ max_it \in 0..MaxIt
    /\ df_train = RowsTo(df_len, TrainStop(df_len))
    /\ df_test = RowsFrom(df_len, TestStart(df_len))
    /\ target_train = RowsTo(target_len, TrainStop(df_len))
    /\ target_test = RowsFrom(target_len, TestStart(df_len))
    /\ thr = Thr(Cardinality(df_train))
    /\ residual0 \in ResVals
    /\ good_cols = <<>> /\ best_cols = <<>> /\ best_shared = FALSE
    /\ new_target = 0
    /\ residual = 0 /\ smallest_residual = 0
    /\ last_residuals = <<>>
    /\ it = 0
    /\ pre_cols = <<>>
    /\ nscore = 0 /\ nfit = 0 /\ fit_y = -1
    /\ min_fit = [res |-> -1, kept |-> <<>>]
    /\ written = <<>> /\ starts = <<>> /\ offered = {}
    /\ hash_order = [i \in 1..2 |-> [x \in {} |-> <<>>]]
    /\ runs = [i \in 1..2 |-> InitRun(residual0, max_it)]
    /\ turn = 1
    /\ fit_memo = [x \in {} |-> 0]
    /\ score_memo = [x \in {} |-> 0]

onecall == <<pc, inputs, split, good_cols, best_cols, best_shared, new_target, residual, residual0,
             last_residuals, smallest_residual, it, pre_cols, monitor, trace>>

\* lines 61-65 in the running call
DetEnter ==
    LET r == runs[turn] IN
    /\ turn \in 1..2 /\ r.pc = "loop"
    /\ LoopCond(r.it, max_it, r.residual, r.last_residuals)
    /\ runs' = [runs EXCEPT ![turn] =
                  [r EXCEPT !.last_residuals = [@ EXCEPT ![HistIndex(r.it) + 1] = r.residual],
                            !.it = NextIt(r.it),
                            !.pc = "score"]]
    /\ UNCHANGED <<onecall, turn, hash_order, fit_memo, score_memo>>

\* lines 61, 88-90 in the running call
DetExit ==
    LET r == runs[turn] IN
    /\ turn \in 1..2 /\ r.pc = "loop"
    /\ ~ LoopCond(r.it, max_it, r.residual, r.last_residuals)
    /\ runs' = [runs EXCEPT ![turn] = [r EXCEPT !.pc = "done"]]
    /\ UNCHANGED <<onecall, turn, hash_order, fit_memo, score_memo>>

\* lines 66-73 in the running call
DetScore ==
    LET r == runs[turn]
        cols == Candidates(Columns, r.good_cols)
        asked == {<<r.fitted, c>> : c \in cols}
    IN
    /\ turn \in 1..2 /\ r.pc = "score"
    /\ \E cols_list \in HashList(hash_order[turn], cols) :
         \E fresh \in [asked \ DOMAIN score_memo -> Scores] :
            LET memo == score_memo @@ fresh
                w == [j \in 1..Len(cols_list) |-> memo[<<r.fitted, cols_list[j]>>]]
            IN  /\ hash_order' = [hash_order EXCEPT ![turn] = @ @@ (cols :> cols_list)]
                /\ score_memo' = memo
                /\ runs' = [runs EXCEPT ![turn] =
                              [r EXCEPT !.good_cols = Extend(r.good_cols, cols_list, w, thr),
                                        !.pc = "fit"]]
    /\ UNCHANGED <<onecall, turn, fit_memo>>

\* lines 75-87 in the running call
DetFit ==
    LET r == runs[turn]
        X == r.good_cols
    IN
    /\ turn \in 1..2 /\ r.pc = "fit"
    /\ \E resp \in (IF Range(X) \in DOMAIN fit_memo THEN {fit_memo[Range(X)]}
                    ELSE [coef : [Range(X) -> CoefVals], res : ResVals]) :
         LET coef_ == [j \in 1..Len(X) |-> resp.coef[X[j]]]
             kept == Prune(X, coef_)
             better == Improves(resp.res, r.smallest_residual)
         IN  /\ fit_memo' = fit_memo @@ (Range(X) :> resp)
             /\ runs' = [runs EXCEPT ![turn] =
                           [r EXCEPT !.residual = resp.res,
                                     !.good_cols = kept,
                                     !.smallest_residual = IF better THEN resp.res ELSE @,
                                     !.best_cols = IF better THEN kept ELSE @,
                                     !.fitted = Range(X),
                                     !.residuals = Append(@, resp.res),
                                     !.pc = "loop"]]
    /\ UNCHANGED <<onecall, turn, hash_order, score_memo>>

\* the first call has returned; the second call starts
DetSecond ==
    /\ turn = 1 /\ runs[1].pc = "done"
    /\ turn' = 2
    /\ UNCHANGED <<onecall, runs, hash_order, fit_memo, score_memo>>

DetNext == DetEnter \/ DetExit \/ DetScore \/ DetFit \/ DetSecond

SpecDet == DetInit /\ [][DetNext]_vars

\* ------------------------------------------------------------- claims

\* C1 (as stated): for n >= 4 rows and p >= 1 columns the returned feature set
\* has at most thr = floor(0.5 * len(train)) entries.
C1_ReturnWithinThr ==
    (pc = "done" /\ df_len >= 4 /\ ncols >= 1)
        => (thr = Cardinality(df_train) \div 2 /\ Len(best_cols) <= thr)

\* C2 (as stated): when k = thr - |good_cols| is zero or negative at the
\* extension step, good_cols is the same before and after that step.
C2_NoExtensionAtCap ==
    (pc = "fit" /\ thr - Len(pre_cols) <= 0) => good_cols = pre_cols

\* C3: in every reachable state good_cols and best_cols (the returned set when
\* pc = "done") hold only column names of the input and hold no name twice.
C3_ColsWellFormed ==
    /\ Range(good_cols) \subseteq Columns /\ NoDup(good_cols)
    /\ Range(best_cols) \subseteq Columns /\ NoDup(best_cols)

\* C3 witness: the scorer has extended a non-empty working set by a further
\* column and a snapshot of more than one column is returned.
C3_Witness ==
    /\ pc = "done" /\ Len(best_cols) >= 2 /\ nscore >= 2

\* C4: with max_it = 0 the body never runs (no scoring, no fit, no history
\* write, counter still 0) and the returned set is empty.
C4_MaxItZero ==
    (max_it = 0) =>
        /\ pc \notin {"score", "fit"}
        /\ it = 0 /\ nscore = 0 /\ nfit = 0
        /\ last_residuals = <<>>
        /\ (pc = "done" => best_cols = <<>>)

\* C4 witness: a call with max_it = 0 and matching lengths has returned.
C4_Witness == pc = "done" /\ max_it = 0 /\ target_len = df_len

\* C5: for n >= 1 the dimension-mismatch error is raised iff len(target) differs
\* from len(df), and when it is raised no iteration (scoring, fit) has run.
C5_MismatchIff ==
    (pc # "split" /\ df_len >= 1) =>
        /\ (pc = "raised") <=> (target_len # df_len)
        /\ (pc = "raised") => (it = 0 /\ nscore = 0 /\ nfit = 0)

\* C5 witness: the error is raised for a target one entry longer than df whose
\* train block nevertheless has the length of df's train block.
C5_Witness ==
    /\ pc = "raised" /\ target_len = df_len + 1
    /\ Cardinality(target_train) = Cardinality(df_train)

\* C6 (as stated): for n >= 1 the train block is the first max(3, floor(0.8 n))
\* rows and the test block the remaining rows: no row is in both, every row is
\* in one, and len(train) + len(test) = n.
C6_SplitPartitions ==
    (pc # "split" /\ df_len >= 1) =>
        LET rows == 0..(df_len - 1)
            k == IF (8 * df_len) \div 10 > 3 THEN (8 * df_len) \div 10 ELSE 3
        IN  /\ df_train = {r \in rows : r < k}
            /\ df_test = rows \ df_train
            /\ df_train \cap df_test = {}
            /\ df_train \cup df_test = rows
            /\ Cardinality(df_train) + Cardinality(df_test) = df_len

\* the residuals recorded by the iterations before the current one (slots
\* 1..j of the history) that are close to r
RecordedClose(r, j) == Cardinality({i \in 1..j : IsClose(r, last_residuals[i])})

\* C7 (as stated): the loop exits iff it >= max_it or at least two residuals
\* recorded by prior iterations are close to the current residual; slots no
\* iteration has written never count.  (At pc = "score" the entry has just
\* recorded the residual in slot it, so the prior slots are 1..it-1.)
C7_ExitIffRecordedCycle ==
    /\ (pc = "done") => (it >= max_it \/ RecordedClose(residual, it) >= 2)
    /\ (pc = "score") => (it - 1 < max_it /\ RecordedClose(residual, it - 1) < 2)

\* C8 (as stated): every call ends (returns or raises), it runs at most max_it
\* iterations, and it leaves the loop only when the budget is used up or a
\* cycle is detected: at least two residuals recorded by prior iterations are
\* close to the current one.
C8_Terminates ==
    /\ <>(pc \in {"done", "raised"})
    /\ [](it <= max_it /\ nscore <= max_it /\ nfit <= max_it)
    /\ []((pc = "done") => (it >= max_it \/ RecordedClose(residual, it) >= 2))

\* C8, the part that holds: every call ends and runs at most max_it iterations
C8_EndsWithinBudget ==
    /\ <>(pc \in {"done", "raised"})
    /\ [](it <= max_it /\ nscore <= max_it /\ nfit <= max_it)

\* C9 (as stated): two calls on the same dataset, target and parameters, with a
\* deterministic regressor and standardizer, return the same feature set and
\* produce the same sequence of validation residuals, also when scores tie.
C9_Deterministic ==
    (turn = 2 /\ runs[1].pc = "done" /\ runs[2].pc = "done") =>
        /\ Range(runs[1].best_cols) = Range(runs[2].best_cols)
        /\ runs[1].residuals = runs[2].residuals

\* C10: on return the result is empty if no executed iteration had a residual
\* strictly below 10 times the baseline; otherwise it is the post-prune working
\* set of the earliest iteration that attained the least residual.
C10_BestIsEarliestMin ==
    (pc = "done") =>
        IF min_fit.res = -1 \/ min_fit.res >= 10 * residual0
        THEN best_cols = <<>>
        ELSE best_cols = min_fit.kept

\* C10 witness: the last iteration tied the least residual with another working
\* set than the one of the earlier iteration, whose non-empty set is returned.
C10_Witness ==
    /\ pc = "done" /\ nfit >= 2
    /\ residual = min_fit.res /\ good_cols # min_fit.kept
    /\ best_cols # <<>> /\ best_cols = min_fit.kept

\* C11: smallest_residual never grows from one step of the loop to the next, and
\* it is always the least of 10 times the baseline residual and the validation
\* residuals computed so far.
C11_SmallestMonotone ==
    /\ [][(pc # "split") => (smallest_residual' <= smallest_residual)]_vars
    /\ []((pc \in {"loop", "score", "fit", "done"}) =>
            smallest_residual = IF min_fit.res = -1 \/ 10 * residual0 <= min_fit.res
                                THEN 10 * residual0 ELSE min_fit.res)

\* C11 witness: after an iteration that lowered smallest_residual, a later
\* iteration with a larger residual has left it where it was.
C11_Witness ==
    /\ pc = "loop" /\ nfit >= 2
    /\ smallest_residual < 10 * residual0
    /\ residual > smallest_residual

\* C12 (as stated): after the extension step of every iteration good_cols has
\* exactly min(thr, p) entries.
C12_ExtendedToCap ==
    (pc = "fit") => Len(good_cols) = (IF thr <= ncols THEN thr ELSE ncols)

\* C13: best_cols changes only in the fit step of an iteration whose new residual
\* is strictly below smallest_residual; no other step changes it, in particular
\* not the extension or the pruning of good_cols after a snapshot was taken.
C13_BestOnlyOnImprovement ==
    [][(best_cols' # best_cols) => (pc = "fit" /\ residual' < smallest_residual)]_vars

\* C13 witness: good_cols was extended after a non-empty snapshot was taken, and
\* the snapshot still has the entries it was taken with.
C13_Witness ==
    /\ pc = "fit" /\ best_cols # <<>>
    /\ best_cols = pre_cols /\ good_cols # pre_cols

\* C14: after j executed iterations the counter is j; the history slots written
\* are 0, 1, .., j-1 in this order (each below max_it, each once); slot i holds
\* the residual that was current at the start of iteration i, slot 0 the
\* baseline; within an iteration the latest slot holds the current residual.
C14_HistoryRecords ==
    (pc \in {"loop", "score", "fit", "done"}) =>
        /\ it <= max_it
        /\ (pc \in {"loop", "done"}) => (it = nfit /\ it = nscore)
        /\ written = [i \in 1..it |-> i - 1]
        /\ \A i \in 1..Len(written) : written[i] < max_it
        /\ Len(starts) = it
        /\ \A i \in 1..it : last_residuals[i] = starts[i]
        /\ (it >= 1) => (last_residuals[1] = residual0)
        /\ (pc \in {"score", "fit"}) => (last_residuals[it] = residual)

\* C14 witness: every iteration of a budget of at least two has run, and the
\* first two slots hold different residuals.
C14_Witness ==
    /\ pc = "done" /\ max_it >= 2 /\ it = max_it
    /\ last_residuals[1] # last_residuals[2]

\* C15: the candidates offered to the scorer are exactly the input columns that
\* are not in good_cols at the start of the iteration; so every column outside
\* good_cols, a column pruned earlier included, is offered.
C15_CandidatesAreTheRest ==
    (pc = "fit") =>
        /\ offered = Columns \ Range(pre_cols)
        /\ \A c \in Columns : (c \in offered) <=> (\A i \in 1..Len(pre_cols) : pre_cols[i] # c)

\* C15 witness: the first iteration pruned every column it had selected, and the
\* second iteration offers all columns again.
C15_Witness ==
    /\ pc = "fit" /\ nscore = 2 /\ pre_cols = <<>>
    /\ offered = Columns

\* C16: once the split is made, no step changes thr, the split or the inputs,
\* and every fit of the regressor is on target_train (named 0), also when
\* new_target is a residual target.
C16_SplitAndTargetFixed ==
    /\ [][(pc # "split") => UNCHANGED <<thr, df_train, df_test, target_train, target_test,
                                        df_len, target_len, ncols, max_it>>]_vars
    /\ []((nfit >= 1) => (fit_y = 0))

\* C16 witness: the regressor was fitted while new_target was a residual target.
C16_Witness ==
    /\ pc = "loop" /\ nfit >= 2 /\ new_target >= 2 /\ fit_y = 0

\* C17: the feature set passed to the fit is never empty (p >= 1, n >= 1).
C17_FitSetNonEmpty ==
    (pc = "fit" /\ ncols >= 1 /\ df_len >= 1) => (good_cols # <<>>)

\* C17 witness: the previous iteration pruned good_cols down to empty and the fit
\* of this iteration is given columns nevertheless.
C17_Witness ==
    /\ pc = "fit" /\ nscore >= 2 /\ pre_cols = <<>> /\ good_cols # <<>>

====
